---------------------------- MODULE Spec2Model ----------------------------
(***************************************************************************)
(* The trust-region minimizer loop of Ceres Solver as a state machine.     *)
(*                                                                         *)
(* The loop is the one documented in docs/source/nnls_solving.rst          *)
(* (src/unnamed/part_000, "Trust Region Methods", Solver::Options,         *)
(* IterationSummary, IterationCallback) and in section 4.5 of the design   *)
(* specification.  The objective, the strategy's step and the linear       *)
(* model's predicted decrease are inputs: they are drawn from small sets.  *)
(* Real quantities are kept exact: ratios are compared by cross            *)
(* multiplication (thresholds in thousandths) and radii are integers in a  *)
(* unit for which every halving the loop performs is exact.                *)
(***************************************************************************)
EXTENDS Integers, Sequences, FiniteSets, TLC

(***************************************************************************)
(* Bounds of the model.                                                    *)
(***************************************************************************)
MaxX == 2
MaxModelCostChange == 2
MaxIterations == 2
MaxInvalidSteps == 1

(***************************************************************************)
(* The problem: a one-dimensional parameter block and its objective.       *)
(***************************************************************************)
X == 0..MaxX

Cost(p) == p * p

Max(a, b) == IF a >= b THEN a ELSE b

Min(a, b) == IF a <= b THEN a ELSE b

Infinity == Cost(MaxX) + 1

RECURSIVE SeqMax(_)
SeqMax(s) == IF Len(s) = 1 THEN s[1] ELSE Max(s[1], SeqMax(Tail(s)))

(***************************************************************************)
(* Solver::Options.  Thresholds on the ratio rho are in thousandths.       *)
(* The basic algorithm leaves eta_1 > eta_2 symbolic; the customary 3/4    *)
(* and 1/4 are used.                                                       *)
(***************************************************************************)
PerMille == 1000

eta_1 == 750

eta_2 == 250

TrustRegionStrategyType == {"LEVENBERG_MARQUARDT", "DOGLEG"}

LinearSolverType == {"DENSE_QR", "CGNR", "DENSE_SCHUR", "SPARSE_SCHUR", "ITERATIVE_SCHUR"}

\* The iterative linear solvers: they never solve the linear system exactly.
IsIterative(linear_solver_type) == linear_solver_type \in {"CGNR", "ITERATIVE_SCHUR"}

IsSchurType(linear_solver_type) ==
    linear_solver_type \in {"DENSE_SCHUR", "SPARSE_SCHUR", "ITERATIVE_SCHUR"}

\* Mutant of IsStrategyCompatible: only CGNR is refused to DOGLEG.
IsStrategyCompatibleButForSchur(strategy, linear_solver_type) ==
    strategy = "DOGLEG" => linear_solver_type # "CGNR"

\* DOGLEG can only be used with exact factorization based linear solvers.
IsStrategyCompatible(strategy, linear_solver_type) ==
    strategy = "DOGLEG" => ~IsIterative(linear_solver_type)

IsValid(o) ==
    /\ o.min_trust_region_radius > 0
    /\ o.min_trust_region_radius <= o.initial_trust_region_radius
    /\ o.initial_trust_region_radius <= o.max_trust_region_radius
    /\ o.max_num_iterations >= 0
    /\ o.max_num_consecutive_invalid_steps > 0
    /\ o.max_consecutive_nonmonotonic_steps > 0
    /\ IsStrategyCompatible(o.trust_region_strategy_type, o.linear_solver_type)

\* The textual description of the cause that IsValid hands back.
ValidationError(o) ==
    IF ~IsStrategyCompatible(o.trust_region_strategy_type, o.linear_solver_type)
    THEN "DOGLEG only supports exact factorization based linear solvers"
    ELSE IF IsValid(o) THEN "" ELSE "invalid option value"

\* The options of the runs of the minimizer proper: validated, with the
\* default strategy and a dense factorization.
Options ==
    { o \in [ trust_region_strategy_type : {"LEVENBERG_MARQUARDT"},
              linear_solver_type : {"DENSE_QR"},
              min_trust_region_radius : {4},
              max_trust_region_radius : {24},
              initial_trust_region_radius : {4, 16},
              min_relative_decrease : {1, 500},
              use_nonmonotonic_steps : BOOLEAN,
              max_consecutive_nonmonotonic_steps : {2},
              max_num_iterations : 1..MaxIterations,
              max_num_consecutive_invalid_steps : 1..MaxInvalidSteps,
              update_state_every_iteration : BOOLEAN,
              use_inner_iterations : {FALSE},
              inner_iteration_tolerance : {1} ] : IsValid(o) }

\* The options handed to Solver::Solve: any strategy with any linear solver,
\* and a minimizer that gives up after its second invalid step.
SolverOptions ==
    [ trust_region_strategy_type : TrustRegionStrategyType,
      linear_solver_type : LinearSolverType,
      min_trust_region_radius : {4},
      max_trust_region_radius : {24},
      initial_trust_region_radius : {16},
      min_relative_decrease : {1},
      use_nonmonotonic_steps : {FALSE},
      max_consecutive_nonmonotonic_steps : {2},
      max_num_iterations : {2},
      max_num_consecutive_invalid_steps : {1},
      update_state_every_iteration : BOOLEAN,
      use_inner_iterations : {FALSE},
      inner_iteration_tolerance : {1} ]

\* The options of a solve with inner iterations: three iterations, and a
\* minimizer that gives up after its second consecutive invalid step.
InnerOptions ==
    [ trust_region_strategy_type : {"LEVENBERG_MARQUARDT"},
      linear_solver_type : {"DENSE_QR"},
      min_trust_region_radius : {4},
      max_trust_region_radius : {24},
      initial_trust_region_radius : {16},
      min_relative_decrease : {1},
      use_nonmonotonic_steps : {FALSE},
      max_consecutive_nonmonotonic_steps : {2},
      max_num_iterations : {3},
      max_num_consecutive_invalid_steps : {1},
      update_state_every_iteration : {FALSE},
      use_inner_iterations : {TRUE},
      inner_iteration_tolerance : {1, 800} ]

CallbackReturnType == {"SOLVER_CONTINUE", "SOLVER_ABORT", "SOLVER_TERMINATE_SUCCESSFULLY"}

TerminationType == {"CONVERGENCE", "NO_CONVERGENCE", "FAILURE", "USER_SUCCESS", "USER_FAILURE"}

StepStatus == {"LINEAR_SOLVER_SUCCESS", "LINEAR_SOLVER_FAILURE", "NON_FINITE_STEP"}

NoSummary ==
    [ iteration |-> 0, step_is_valid |-> FALSE, step_is_successful |-> FALSE,
      step_is_nonmonotonic |-> FALSE, cost |-> 0, cost_change |-> 0,
      model_cost_change |-> 0, trust_region_radius |-> 0 ]

(***************************************************************************)
(* The structure of the problem as the Schur solvers see it: the parameter *)
(* blocks, and for each residual block the parameter blocks it depends on. *)
(* An ordering is a ParameterBlockOrdering given by its map from group id  *)
(* to the elements of the group.                                           *)
(***************************************************************************)
ParameterBlocks == {"point1", "point2", "camera"}

ResidualStructures ==
    { { {"point1", "camera"}, {"point2", "camera"} },
      { {"point1", "point2"}, {"point2", "camera"} } }

GroupToElements(group_of) ==
    [ g \in { group_of[b] : b \in DOMAIN group_of } |->
          { b \in DOMAIN group_of : group_of[b] = g } ]

Orderings == { GroupToElements(group_of) : group_of \in [ParameterBlocks -> {0, 1}] }

NumGroups(ordering) == Cardinality(DOMAIN ordering)

LowestGroup(ordering) ==
    ordering[CHOOSE g \in DOMAIN ordering : \A h \in DOMAIN ordering : g <= h]

\* No two parameter blocks of the set co-occur in a residual block.
IsParameterBlockSetIndependent(blocks, residuals) ==
    \A r \in residuals : Cardinality(r \cap blocks) <= 1

VARIABLES
    options,                      \* Solver::Options of this solve
    initial_parameters,           \* the user's parameter block when Solve was called
    user_parameters,              \* the user's parameter block
    pc,                           \* state of the loop
    x,                            \* current iterate
    x_cost,                       \* cost of the current iterate
    candidate_x,                  \* x + delta
    candidate_cost,               \* cost at x + delta (Infinity when not finite)
    model_cost_change,            \* predicted decrease of the linearized model
    step_status,                  \* outcome of the strategy's step computation
    radius,                       \* trust-region radius mu
    num_consecutive_invalid_steps,
    num_linear_solver_failures,   \* step computations in which the linear solver failed
    iteration,                    \* number of the iteration in progress
    iteration_summary,            \* IterationSummary of the iteration in progress
    iterations,                   \* Solver::Summary::iterations
    minimum_cost,                 \* lowest cost of any iterate so far
    parameters,                   \* the iterate that has cost minimum_cost
    reference_costs,              \* costs of the last accepted iterates (non-monotonic window)
    termination_type,
    num_callback_calls,
    callback_verdict,             \* verdict of the latest callback invocation
    callback_saw,                 \* user_parameters as the latest callback invocation saw them
    message,                      \* Solver::Summary::message
    inner_iterations_are_enabled, \* inner iterations are still made after accepted steps
    num_inner_iteration_steps,    \* Solver::Summary::num_inner_iteration_steps
    residual_blocks,              \* the problem: parameter blocks of each residual block
    linear_solver_ordering,       \* Solver::Options::linear_solver_ordering
    e_blocks,                     \* parameter blocks the Schur solver eliminates first
    group_to_elements,            \* a ParameterBlockOrdering: the elements of each group
    return_value,                 \* what the latest call on the ordering returned
    crashed,                      \* a call on the ordering has crashed the process
    last_call,                    \* the latest call on the ordering, as its caller made it
    cov_problem,                  \* the Problem of a covariance computation: its parameter blocks
    compute_input,                \* the list Covariance::Compute was called with
    covariance_blocks,            \* the pairs of parameter blocks whose covariance is asked for
    covariance_matrix,            \* CovarianceImpl::covariance_matrix(): a compressed row pattern
    compute_outcome,              \* how Covariance::Compute ended
    abort_message,                \* the indices the fatal message of Compute names
    buffer,                       \* the caller's buffer after the latest GetCovarianceBlock...
    last_get,                     \* the latest GetCovarianceBlock... call
    preconditioner_type_given,    \* Solver::Summary::preconditioner_type_given
    preconditioner_type_used,     \* Solver::Summary::preconditioner_type_used
    preconditioner,               \* a Preconditioner object and the latest Update on it
    product                       \* the latest RightMultiplyAndAccumulate since that Update

minimizer_vars ==
    << options, initial_parameters, user_parameters, pc, x, x_cost, candidate_x,
       candidate_cost, model_cost_change, step_status,
       radius, num_consecutive_invalid_steps, num_linear_solver_failures,
       iteration, iteration_summary,
       iterations, minimum_cost, parameters, reference_costs, termination_type,
       num_callback_calls, callback_verdict, callback_saw, message,
       inner_iterations_are_enabled, num_inner_iteration_steps >>

problem_vars == << residual_blocks, linear_solver_ordering, e_blocks >>

ordering_vars == << group_to_elements, return_value, crashed, last_call >>

covariance_vars ==
    << cov_problem, compute_input, covariance_blocks, covariance_matrix,
       compute_outcome, abort_message, buffer, last_get >>

preconditioner_vars ==
    << preconditioner_type_given, preconditioner_type_used, preconditioner, product >>

vars ==
    << minimizer_vars, problem_vars, ordering_vars, covariance_vars, preconditioner_vars >>

\* The state in which Solve finds the minimizer and the summary.
MinimizerInit ==
    /\ initial_parameters \in {0, MaxX}
    /\ user_parameters = initial_parameters
    /\ x = initial_parameters
    /\ x_cost = 0
    /\ candidate_x = initial_parameters
    /\ candidate_cost = 0
    /\ model_cost_change = 0
    /\ step_status = "LINEAR_SOLVER_SUCCESS"
    /\ radius = options.initial_trust_region_radius
    /\ num_consecutive_invalid_steps = 0
    /\ num_linear_solver_failures = 0
    /\ iteration = 0
    /\ iteration_summary = NoSummary
    /\ iterations = << >>
    /\ minimum_cost = 0
    /\ parameters = initial_parameters
    /\ reference_costs = << >>
    /\ termination_type = "NONE"
    /\ num_callback_calls = 0
    /\ callback_verdict = "NONE"
    /\ callback_saw = initial_parameters
    /\ message = ""
    /\ inner_iterations_are_enabled = options.use_inner_iterations
    /\ num_inner_iteration_steps = 0

\* A problem that has passed preprocessing for a solver that eliminates nothing.
ProblemInit ==
    /\ residual_blocks = { {"point1", "camera"}, {"point2", "camera"} }
    /\ linear_solver_ordering = << >>
    /\ e_blocks = {}

NoCall == [ method |-> "none", element |-> "none", group |-> -1, group_id |-> -1 ]

\* A ParameterBlockOrdering as constructed: no groups.
OrderingInit ==
    /\ group_to_elements = << >>
    /\ return_value = TRUE
    /\ crashed = FALSE
    /\ last_call = NoCall

NoMatrix == [ num_rows |-> -1, num_cols |-> -1, rows |-> << >>, cols |-> << >> ]

NoGet == [ method |-> "none", block1 |-> 0, block2 |-> 0 ]

\* A Covariance object as constructed: nothing has been computed.
CovarianceInit ==
    /\ compute_input = << >>
    /\ covariance_blocks = << >>
    /\ covariance_matrix = NoMatrix
    /\ compute_outcome = "none"
    /\ abort_message = {}
    /\ buffer = << >>
    /\ last_get = NoGet

\* No covariance is asked for.
NoCovariance == cov_problem = << >> /\ CovarianceInit

NoProduct == [ x |-> 0, y |-> 0, num |-> 0, den |-> 0 ]

\* No preconditioner is chosen or built.
NoPreconditioner ==
    /\ preconditioner_type_given = "NONE"
    /\ preconditioner_type_used = "NONE"
    /\ preconditioner = [ variant |-> "NONE", matrix_ |-> 0, A |-> -1, D |-> -1,
                          update_result |-> "none" ]
    /\ product = NoProduct

\* The minimizer proper: the options are valid and the problem is preprocessed.
Init ==
    /\ options \in Options
    /\ pc = "Start"
    /\ MinimizerInit
    /\ ProblemInit
    /\ OrderingInit
    /\ NoCovariance
    /\ NoPreconditioner

(***************************************************************************)
(* Step quality.  rho = cost_change / model_change; rho > t is decided by  *)
(* cross multiplication, model_change being positive for a valid step.     *)
(***************************************************************************)
RatioExceeds(cost_change, model_change, threshold) ==
    cost_change * PerMille > threshold * model_change

RatioBelow(cost_change, model_change, threshold) ==
    cost_change * PerMille < threshold * model_change

\* Mutant of StepIsValid: every step is taken for valid.
StepIsValidAlways == TRUE

StepIsValid == step_status = "LINEAR_SOLVER_SUCCESS" /\ model_cost_change > 0

\* The decrease the acceptance test looks at: the actual decrease, or in
\* non-monotonic mode the larger of that and the decrease measured from the
\* highest cost of the window of recently accepted iterates.
\* Mutant of RelaxedCostChange: the relaxed criterion is used in every mode.
RelaxedCostChangeInEveryMode(cost) ==
    Max(x_cost - cost, SeqMax(reference_costs) - cost)

RelaxedCostChange(cost) ==
    IF options.use_nonmonotonic_steps
    THEN Max(x_cost - cost, SeqMax(reference_costs) - cost)
    ELSE x_cost - cost

\* Mutant of IsStepSuccessful: a step whose ratio equals the threshold passes.
IsStepSuccessfulNonStrict(cost_change, model_change) ==
    cost_change * PerMille >= options.min_relative_decrease * model_change

IsStepSuccessful(cost_change, model_change) ==
    RatioExceeds(cost_change, model_change, options.min_relative_decrease)

Half(r) == r \div 2

\* The factors by which a strong ratio makes the radius grow: 2 in the basic
\* algorithm, 3 in the documented progress of a solve (tr_radius 1.00e+04
\* becomes 3.00e+04 after a step of tr_ratio 9.82e-01).  Which one an iteration
\* uses depends on the ratio in a way the documentation does not give.
GrowthFactors == {2, 3}

\* Mutant of UpdatedRadius: growth is not bounded by max_trust_region_radius.
UpdatedRadiusUnbounded(r, cost_change, model_change, growth) ==
    IF RatioExceeds(cost_change, model_change, eta_1)
    THEN growth * r
    ELSE IF RatioBelow(cost_change, model_change, eta_2)
         THEN Half(r)
         ELSE r

\* Steps 5 and 6 of the basic algorithm.
UpdatedRadius(r, cost_change, model_change, growth) ==
    IF RatioExceeds(cost_change, model_change, eta_1)
    THEN Min(growth * r, options.max_trust_region_radius)
    ELSE IF RatioBelow(cost_change, model_change, eta_2)
         THEN Half(r)
         ELSE r

LastN(s, n) == IF Len(s) <= n THEN s ELSE SubSeq(s, Len(s) - n + 1, Len(s))

\* Mutant of IsSolutionUsable: a solve that ran out of iterations or time is not usable.
IsSolutionUsableConverged(t) == t \in {"CONVERGENCE", "USER_SUCCESS"}

IsSolutionUsable(t) == t \in {"CONVERGENCE", "USER_SUCCESS", "NO_CONVERGENCE"}

(***************************************************************************)
(* Iteration 0: evaluate the starting point.                               *)
(***************************************************************************)
IterationZero ==
    /\ pc = "Start"
    /\ x_cost' = Cost(x)
    /\ minimum_cost' = Cost(x)
    /\ parameters' = x
    /\ reference_costs' = << Cost(x) >>
    /\ iteration_summary' = [ NoSummary EXCEPT !.cost = Cost(x) ]
    /\ pc' = "IterationEnd"
    /\ UNCHANGED << inner_iterations_are_enabled, num_inner_iteration_steps >>
    /\ UNCHANGED << options, num_linear_solver_failures, initial_parameters,
                    user_parameters, x, candidate_x,
                    candidate_cost, model_cost_change, step_status, radius,
                    num_consecutive_invalid_steps, iteration, iterations,
                    termination_type, num_callback_calls, callback_verdict,
                    callback_saw, message >>

(***************************************************************************)
(* Step 1: the strategy proposes a step for the current radius.  The       *)
(* linear solver may fail, the step may be non-finite, and the predicted   *)
(* decrease of the model may be zero.                                      *)
(***************************************************************************)
ComputeStep ==
    /\ pc = "StepComputation"
    /\ iteration' = iteration + 1
    /\ \E status \in StepStatus, c \in X, m \in 0..MaxModelCostChange :
          /\ step_status' = status
          /\ candidate_x' = IF status = "LINEAR_SOLVER_SUCCESS" THEN c ELSE x
          /\ model_cost_change' = IF status = "LINEAR_SOLVER_SUCCESS" THEN m ELSE 0
          /\ num_linear_solver_failures' =
                IF status = "LINEAR_SOLVER_FAILURE"
                THEN num_linear_solver_failures + 1
                ELSE num_linear_solver_failures
    /\ pc' = "StepEvaluation"
    /\ UNCHANGED << inner_iterations_are_enabled, num_inner_iteration_steps >>
    /\ UNCHANGED << options, initial_parameters, user_parameters, x, x_cost,
                    candidate_cost, radius, num_consecutive_invalid_steps,
                    iteration_summary, iterations, minimum_cost, parameters,
                    reference_costs, termination_type, num_callback_calls,
                    callback_verdict, callback_saw, message >>

(***************************************************************************)
(* Step 3: an invalid step.  The counter of consecutive invalid steps is   *)
(* incremented; if it exceeds the limit the solve fails, otherwise the     *)
(* radius is reduced and the iteration ends as an unsuccessful one.        *)
(***************************************************************************)
\* Mutant of InvalidStepLimitExceeded: the solve fails when the limit is reached.
InvalidStepLimitReached(n) == n >= options.max_num_consecutive_invalid_steps

\* Mutant of InvalidStepLimitExceeded: invalid steps never end the solve.
InvalidStepLimitIgnored(n) == FALSE

InvalidStepLimitExceeded(n) == n > options.max_num_consecutive_invalid_steps

HandleInvalidStep ==
    /\ pc = "StepEvaluation"
    /\ ~StepIsValid
    /\ num_consecutive_invalid_steps' = num_consecutive_invalid_steps + 1
    /\ IF InvalidStepLimitExceeded(num_consecutive_invalid_steps + 1)
       THEN /\ termination_type' = "FAILURE"
            /\ message' = "Number of consecutive invalid steps more than max_num_consecutive_invalid_steps"
            /\ pc' = "Terminated"
            /\ UNCHANGED << radius, iteration_summary >>
       ELSE /\ radius' = Half(radius)
            /\ iteration_summary' =
                  [ NoSummary EXCEPT !.iteration = iteration, !.cost = x_cost ]
            /\ pc' = "IterationEnd"
            /\ UNCHANGED << termination_type, message >>
    /\ UNCHANGED << inner_iterations_are_enabled, num_inner_iteration_steps >>
    /\ UNCHANGED << options, num_linear_solver_failures, initial_parameters,
                    user_parameters, x, x_cost,
                    candidate_x, candidate_cost, model_cost_change, step_status,
                    iteration, iterations, minimum_cost, parameters,
                    reference_costs, num_callback_calls, callback_verdict,
                    callback_saw >>

(***************************************************************************)
(* Steps 2 and 4: evaluate the cost at x + delta and decide.               *)
(***************************************************************************)
\* Mutant of InvalidStepsAfterValidStep: a valid step leaves the counter alone.
InvalidStepsAfterValidStepKept(n) == n

\* The counter of consecutive invalid steps after a valid step.
InvalidStepsAfterValidStep(n) == 0

EvaluateStep ==
    /\ pc = "StepEvaluation"
    /\ StepIsValid
    /\ num_consecutive_invalid_steps' = InvalidStepsAfterValidStep(num_consecutive_invalid_steps)
    /\ \E finite \in BOOLEAN :
          LET cost == IF finite THEN Cost(candidate_x) ELSE Infinity
          IN  /\ candidate_cost' = cost
              /\ pc' = IF IsStepSuccessful(RelaxedCostChange(cost), model_cost_change)
                       THEN "Accepted" ELSE "Rejected"
    /\ UNCHANGED << inner_iterations_are_enabled, num_inner_iteration_steps >>
    /\ UNCHANGED << options, num_linear_solver_failures, initial_parameters,
                    user_parameters, x, x_cost,
                    candidate_x, model_cost_change, step_status, radius,
                    iteration, iteration_summary, iterations, minimum_cost,
                    parameters, reference_costs, termination_type,
                    num_callback_calls, callback_verdict, callback_saw, message >>

(***************************************************************************)
(* An accepted step: x = x + delta, refined by inner iterations while they *)
(* are enabled; the best iterate is tracked, the radius is updated.        *)
(***************************************************************************)
\* Mutant of InnerIterationsStalled: inner iterations are never found to stall.
InnerIterationsNeverStalled(before, after) == FALSE

\* The relative decrease of the cost that inner iterations brought is below
\* inner_iteration_tolerance (in thousandths).
InnerIterationsStalled(before, after) ==
    (before - after) * PerMille < options.inner_iteration_tolerance * before

\* The points inner iterations can lead to from a candidate: they minimize,
\* so none has a higher cost.
InnerIterates(candidate) == { p \in X : Cost(p) <= Cost(candidate) }

AcceptStep ==
    /\ pc = "Accepted"
    /\ \E refined \in (IF inner_iterations_are_enabled
                       THEN InnerIterates(candidate_x) ELSE {candidate_x}) :
          LET cost == IF inner_iterations_are_enabled THEN Cost(refined) ELSE candidate_cost
          IN  /\ x' = refined
              /\ x_cost' = cost
              /\ IF cost < minimum_cost
                 THEN minimum_cost' = cost /\ parameters' = refined
                 ELSE UNCHANGED << minimum_cost, parameters >>
              /\ reference_costs' = LastN(Append(reference_costs, cost),
                                          options.max_consecutive_nonmonotonic_steps)
              /\ iteration_summary' =
                    [ iteration |-> iteration,
                      step_is_valid |-> TRUE,
                      step_is_successful |-> TRUE,
                      step_is_nonmonotonic |->
                          ~IsStepSuccessful(x_cost - candidate_cost, model_cost_change),
                      cost |-> cost,
                      cost_change |-> x_cost - cost,
                      model_cost_change |-> model_cost_change,
                      trust_region_radius |-> 0 ]
              /\ inner_iterations_are_enabled' =
                    (inner_iterations_are_enabled
                        /\ ~InnerIterationsStalled(candidate_cost, cost))
              /\ num_inner_iteration_steps' =
                    IF inner_iterations_are_enabled
                    THEN num_inner_iteration_steps + 1
                    ELSE num_inner_iteration_steps
    /\ \E growth \in GrowthFactors :
          radius' = UpdatedRadius(radius, x_cost - candidate_cost, model_cost_change, growth)
    /\ pc' = "IterationEnd"
    /\ UNCHANGED << options, num_linear_solver_failures, initial_parameters,
                    user_parameters, candidate_x,
                    candidate_cost, model_cost_change, step_status,
                    num_consecutive_invalid_steps, iteration, iterations,
                    termination_type, num_callback_calls, callback_verdict,
                    callback_saw, message >>

(***************************************************************************)
(* A rejected step: x and its cost stay, the radius is updated.            *)
(***************************************************************************)
RejectStep ==
    /\ pc = "Rejected"
    /\ \E growth \in GrowthFactors :
          radius' = UpdatedRadius(radius, x_cost - candidate_cost, model_cost_change, growth)
    /\ iteration_summary' =
          [ iteration |-> iteration,
            step_is_valid |-> TRUE,
            step_is_successful |-> FALSE,
            step_is_nonmonotonic |-> FALSE,
            cost |-> x_cost,
            cost_change |-> x_cost - candidate_cost,
            model_cost_change |-> model_cost_change,
            trust_region_radius |-> 0 ]
    /\ pc' = "IterationEnd"
    /\ UNCHANGED << inner_iterations_are_enabled, num_inner_iteration_steps >>
    /\ UNCHANGED << options, num_linear_solver_failures, initial_parameters,
                    user_parameters, x, x_cost,
                    candidate_x, candidate_cost, model_cost_change, step_status,
                    num_consecutive_invalid_steps, iteration, iterations,
                    minimum_cost, parameters, reference_costs, termination_type,
                    num_callback_calls, callback_verdict, callback_saw, message >>

(***************************************************************************)
(* Step 7, the end of an iteration: the summary is appended, the user's    *)
(* parameter block is brought up to date if asked for, the callback runs   *)
(* and the termination tests are made.                                     *)
(***************************************************************************)
\* Mutant of StateSeenByCallback: the current iterate is copied, not the best.
StateSeenByCallbackCurrent ==
    IF options.update_state_every_iteration THEN x ELSE user_parameters

StateSeenByCallback ==
    IF options.update_state_every_iteration THEN parameters ELSE user_parameters

\* Mutant of TerminationByCallback: an abort is reported as a solver failure.
TerminationByCallbackAsFailure(verdict) ==
    IF verdict = "SOLVER_ABORT" THEN "FAILURE"
    ELSE IF verdict = "SOLVER_TERMINATE_SUCCESSFULLY" THEN "USER_SUCCESS"
    ELSE "NONE"

\* Mutant of TerminationByCallback: the verdict SOLVER_ABORT is not acted on.
TerminationByCallbackIgnoresAbort(verdict) ==
    IF verdict = "SOLVER_TERMINATE_SUCCESSFULLY" THEN "USER_SUCCESS" ELSE "NONE"

TerminationByCallback(verdict) ==
    IF verdict = "SOLVER_ABORT" THEN "USER_FAILURE"
    ELSE IF verdict = "SOLVER_TERMINATE_SUCCESSFULLY" THEN "USER_SUCCESS"
    ELSE "NONE"

\* Mutant of MaxSolverIterationsReached: one iteration too many.
MaxSolverIterationsExceeded == iteration > options.max_num_iterations

MaxSolverIterationsReached == iteration >= options.max_num_iterations

\* Mutant of MinTrustRegionRadiusReached: the radius is never found too small.
MinTrustRegionRadiusNeverReached == FALSE

MinTrustRegionRadiusReached == radius < options.min_trust_region_radius

\* external is the outcome of the tests the model does not compute: the
\* wall-clock budget and the function, gradient and parameter tolerances.
TerminationTest(verdict, external) ==
    IF TerminationByCallback(verdict) # "NONE" THEN TerminationByCallback(verdict)
    ELSE IF external = "max_time" THEN "NO_CONVERGENCE"
    ELSE IF MaxSolverIterationsReached THEN "NO_CONVERGENCE"
    ELSE IF external = "tolerance" THEN "CONVERGENCE"
    ELSE IF MinTrustRegionRadiusReached THEN "CONVERGENCE"
    ELSE "NONE"

\* What the summary says about the termination that TerminationTest found.
TerminationMessage(verdict, external) ==
    IF verdict = "SOLVER_ABORT" THEN "User callback returned SOLVER_ABORT"
    ELSE IF verdict = "SOLVER_TERMINATE_SUCCESSFULLY"
         THEN "User callback returned SOLVER_TERMINATE_SUCCESSFULLY"
    ELSE IF external = "max_time" THEN "Maximum solver time reached"
    ELSE IF MaxSolverIterationsReached THEN "Maximum number of iterations reached"
    ELSE IF external = "tolerance" THEN "Convergence tolerance reached"
    ELSE IF MinTrustRegionRadiusReached THEN "Minimum trust region radius reached"
    ELSE ""

\* Mutant of ReturnedParameters: the last accepted iterate is returned.
ReturnedParametersLastAccepted(t, seen) == IF IsSolutionUsable(t) THEN x ELSE seen

\* Mutant of ReturnedParameters: the best iterate is returned on every termination.
ReturnedParametersAlways(t, seen) == parameters

\* Mutant of ReturnedParameters: a failed solve leaves the candidate x + delta.
ReturnedParametersCandidate(t, seen) == IF IsSolutionUsable(t) THEN parameters ELSE candidate_x

\* What Solve leaves in the user's parameter block when it returns.
ReturnedParameters(t, seen) == IF IsSolutionUsable(t) THEN parameters ELSE seen

\* Mutant of RecordedIterations: only the latest summary is kept.
RecordedIterationsLatestOnly(summary) == << summary >>

\* Solver::Summary::iterations with the summary of the iteration that ends.
RecordedIterations(summary) == Append(iterations, summary)

EndIteration ==
    /\ pc = "IterationEnd"
    /\ iterations' = RecordedIterations(
                         [ iteration_summary EXCEPT !.trust_region_radius = radius ])
    /\ num_callback_calls' = num_callback_calls + 1
    /\ callback_saw' = StateSeenByCallback
    /\ \E verdict \in CallbackReturnType, external \in {"none", "max_time", "tolerance"} :
          /\ callback_verdict' = verdict
          /\ termination_type' = TerminationTest(verdict, external)
          /\ message' = TerminationMessage(verdict, external)
    /\ pc' = IF termination_type' = "NONE" THEN "StepComputation" ELSE "Terminated"
    /\ user_parameters' = IF termination_type' = "NONE"
                          THEN StateSeenByCallback
                          ELSE ReturnedParameters(termination_type', StateSeenByCallback)
    \* The step, its cost and the model's prediction are scratch values of the
    \* iteration that has ended; the next iteration computes them afresh.
    /\ candidate_x' = x
    /\ candidate_cost' = x_cost
    /\ model_cost_change' = 0
    /\ step_status' = "LINEAR_SOLVER_SUCCESS"
    /\ UNCHANGED << inner_iterations_are_enabled, num_inner_iteration_steps >>
    /\ UNCHANGED << options, num_linear_solver_failures, initial_parameters,
                    x, x_cost, radius, num_consecutive_invalid_steps, iteration,
                    iteration_summary, minimum_cost, parameters, reference_costs >>

\* What a step of the minimizer leaves alone.
other_vars == << problem_vars, ordering_vars, covariance_vars, preconditioner_vars >>

Next ==
    \/ IterationZero /\ UNCHANGED other_vars
    \/ ComputeStep /\ UNCHANGED other_vars
    \/ HandleInvalidStep /\ UNCHANGED other_vars
    \/ EvaluateStep /\ UNCHANGED other_vars
    \/ AcceptStep /\ UNCHANGED other_vars
    \/ RejectStep /\ UNCHANGED other_vars
    \/ EndIteration /\ UNCHANGED other_vars

Spec == Init /\ [][Next]_vars

\* The loop is sequential and every step of it returns: it keeps running
\* until it terminates.
FairSpec == Spec /\ WF_vars(Next)

\* A solve of up to three iterations with inner iterations.
InnerInit ==
    /\ options \in InnerOptions
    /\ pc = "Start"
    /\ MinimizerInit
    /\ ProblemInit
    /\ OrderingInit
    /\ NoCovariance
    /\ NoPreconditioner

InnerSpec == InnerInit /\ [][Next]_vars

(***************************************************************************)
(* Solver::Solve: the options are validated, the problem is preprocessed   *)
(* for the linear solver, and the minimizer runs.                          *)
(***************************************************************************)
SolveInit ==
    /\ options \in SolverOptions
    /\ pc = "Validation"
    /\ MinimizerInit
    /\ residual_blocks \in ResidualStructures
    /\ linear_solver_ordering \in Orderings \cup { << >> }
    /\ e_blocks = {}
    /\ OrderingInit
    /\ NoCovariance
    /\ NoPreconditioner

ValidateOptions ==
    /\ pc = "Validation"
    /\ IF IsValid(options)
       THEN /\ pc' = "Preprocessing"
            /\ UNCHANGED << termination_type, message >>
       ELSE /\ pc' = "Terminated"
            /\ termination_type' = "FAILURE"
            /\ message' = ValidationError(options)
    /\ UNCHANGED << inner_iterations_are_enabled, num_inner_iteration_steps >>
    /\ UNCHANGED << options, initial_parameters, user_parameters, x, x_cost, candidate_x,
                    candidate_cost, model_cost_change, step_status,
                    radius, num_consecutive_invalid_steps, num_linear_solver_failures,
                    iteration, iteration_summary, iterations, minimum_cost, parameters,
                    reference_costs, num_callback_calls, callback_verdict, callback_saw,
                    problem_vars, ordering_vars, covariance_vars, preconditioner_vars >>

\* The sets an independent set algorithm may return: independent, and no
\* parameter block can be added.
MaximalIndependentSets(residuals) ==
    { s \in SUBSET ParameterBlocks :
          /\ IsParameterBlockSetIndependent(s, residuals)
          /\ \A b \in ParameterBlocks \ s :
                ~IsParameterBlockSetIndependent(s \cup {b}, residuals) }

\* Mutant of UserOrderingIsUsable: the first elimination group is not examined.
UserOrderingIsUsableUnchecked(ordering, residuals) == TRUE

\* An ordering the user specified must have an independent set as its lowest
\* numbered elimination group.
UserOrderingIsUsable(ordering, residuals) ==
    IsParameterBlockSetIndependent(LowestGroup(ordering), residuals)

\* No ordering and an ordering of one group mean the same thing: the choice
\* is left to the solver.
OrderingIsLeftToSolver(ordering) == NumGroups(ordering) <= 1

Preprocess ==
    /\ pc = "Preprocessing"
    /\ IF ~IsSchurType(options.linear_solver_type)
       THEN /\ pc' = "Start"
            /\ UNCHANGED << e_blocks, termination_type, message >>
       ELSE IF OrderingIsLeftToSolver(linear_solver_ordering)
       THEN /\ e_blocks' \in MaximalIndependentSets(residual_blocks)
            /\ pc' = "Start"
            /\ UNCHANGED << termination_type, message >>
       ELSE IF UserOrderingIsUsable(linear_solver_ordering, residual_blocks)
       THEN /\ e_blocks' = LowestGroup(linear_solver_ordering)
            /\ pc' = "Start"
            /\ UNCHANGED << termination_type, message >>
       ELSE /\ pc' = "Terminated"
            /\ termination_type' = "FAILURE"
            /\ message' = "The first elimination group is not an independent set"
            /\ UNCHANGED e_blocks
    /\ UNCHANGED << inner_iterations_are_enabled, num_inner_iteration_steps >>
    /\ UNCHANGED << options, initial_parameters, user_parameters, x, x_cost, candidate_x,
                    candidate_cost, model_cost_change, step_status,
                    radius, num_consecutive_invalid_steps, num_linear_solver_failures,
                    iteration, iteration_summary, iterations, minimum_cost, parameters,
                    reference_costs, num_callback_calls, callback_verdict, callback_saw,
                    residual_blocks, linear_solver_ordering, ordering_vars,
                    covariance_vars, preconditioner_vars >>

SolveNext ==
    \/ ValidateOptions
    \/ Preprocess
    \/ Next

SolveSpec == SolveInit /\ [][SolveNext]_vars

(***************************************************************************)
(* ParameterBlockOrdering: an ordered collection of groups.  Group ids are *)
(* non-negative integers; the groups that exist are the ones with one or   *)
(* more elements.                                                          *)
(***************************************************************************)
MaxGroupId == 1

GroupIds == 0..MaxGroupId

\* The group id of the element, -1 if it is not a member of any group.
GroupId(element) ==
    IF \E g \in DOMAIN group_to_elements : element \in group_to_elements[g]
    THEN CHOOSE g \in DOMAIN group_to_elements : element \in group_to_elements[g]
    ELSE -1

IsMember(element) == \E g \in DOMAIN group_to_elements : element \in group_to_elements[g]

GroupSize(group) ==
    IF group \in DOMAIN group_to_elements THEN Cardinality(group_to_elements[group]) ELSE 0

NumElements == Cardinality(UNION { group_to_elements[g] : g \in DOMAIN group_to_elements })

\* The map without the element; a group left without elements is dropped.
WithoutElement(groups, element) ==
    [ g \in { h \in DOMAIN groups : groups[h] # {element} } |-> groups[g] \ {element} ]

\* The map with the element added to the group, which is created if need be.
WithElement(groups, element, group) ==
    [ g \in DOMAIN groups \cup {group} |->
          IF g = group
          THEN (IF g \in DOMAIN groups THEN groups[g] ELSE {}) \cup {element}
          ELSE groups[g] ]

\* Mutant of Moved: the element is added without leaving its group.
MovedKeepingOldGroup(groups, element, group) == WithElement(groups, element, group)

\* An element can only belong to one group at a time, and AddElementToGroup
\* can be called any number of times for the same element.
Moved(groups, element, group) == WithElement(WithoutElement(groups, element), element, group)

\* The number of group ids below g, and the group id with n ids above it.
Rank(groups, g) == Cardinality({ h \in DOMAIN groups : h < g })

Mirror(groups, g) ==
    CHOOSE h \in DOMAIN groups : Cardinality({ k \in DOMAIN groups : k > h }) = Rank(groups, g)

AddElementToGroup(element, group) ==
    /\ ~crashed
    /\ last_call' = [ method |-> "AddElementToGroup", element |-> element,
                      group |-> group, group_id |-> GroupId(element) ]
    /\ IF group < 0
       THEN return_value' = FALSE /\ UNCHANGED group_to_elements
       ELSE /\ group_to_elements' = Moved(group_to_elements, element, group)
            /\ return_value' = TRUE
    /\ UNCHANGED crashed

\* Mutant of RemoveCrashes: removing an element that is in no group is harmless.
RemoveNeverCrashes(element) == FALSE

\* If the element is not a member of any group, Remove results in a crash.
RemoveCrashes(element) == ~IsMember(element)

Remove(element) ==
    /\ ~crashed
    /\ last_call' = [ method |-> "Remove", element |-> element,
                      group |-> -1, group_id |-> GroupId(element) ]
    /\ IF RemoveCrashes(element)
       THEN crashed' = TRUE /\ UNCHANGED << group_to_elements, return_value >>
       ELSE /\ group_to_elements' = WithoutElement(group_to_elements, element)
            /\ return_value' = (GroupId(element) >= 0)
            /\ UNCHANGED crashed

\* The order of the groups is reversed in place: the first group exchanges
\* its elements with the last, the second with the last but one.
Reverse ==
    /\ ~crashed
    /\ last_call' = [ NoCall EXCEPT !.method = "Reverse" ]
    /\ group_to_elements' =
          [ g \in DOMAIN group_to_elements |->
                group_to_elements[Mirror(group_to_elements, g)] ]
    /\ UNCHANGED << return_value, crashed >>

Clear ==
    /\ ~crashed
    /\ last_call' = [ NoCall EXCEPT !.method = "Clear" ]
    /\ group_to_elements' = << >>
    /\ UNCHANGED << return_value, crashed >>

\* No solve is in progress while the ordering is built.
NoSolve ==
    /\ options = CHOOSE o \in Options : TRUE
    /\ pc = "Start"
    /\ initial_parameters = 0
    /\ MinimizerInit
    /\ ProblemInit

OrderingSpecInit == NoSolve /\ OrderingInit /\ NoCovariance /\ NoPreconditioner

OrderingNext ==
    \/ \E element \in ParameterBlocks, group \in GroupIds \cup {-1} :
          AddElementToGroup(element, group) /\ UNCHANGED << minimizer_vars, problem_vars, covariance_vars, preconditioner_vars >>
    \/ \E element \in ParameterBlocks :
          Remove(element) /\ UNCHANGED << minimizer_vars, problem_vars, covariance_vars, preconditioner_vars >>
    \/ Reverse /\ UNCHANGED << minimizer_vars, problem_vars, covariance_vars, preconditioner_vars >>
    \/ Clear /\ UNCHANGED << minimizer_vars, problem_vars, covariance_vars, preconditioner_vars >>

OrderingSpec == OrderingSpecInit /\ [][OrderingNext]_vars

(***************************************************************************)
(* Covariance.  A problem is the sequence of its parameter blocks in       *)
(* increasing address order; a parameter block is named by its place in    *)
(* the sequence.  A block is variable, constant, unused (it occurs in no   *)
(* residual block) or has a manifold whose tangent space is of size zero.  *)
(* Numbers of rows and columns are counted from 0 as the matrix does.      *)
(***************************************************************************)
MaxPairs == 2

BlockKinds == {"variable", "constant", "unused", "zero_tangent"}

\* The problems of the three sparsity tests: blocks of sizes 1, 2, 3 and 4.
SparsityTestProblem(kind3) ==
    << [ size |-> 1, kind |-> "variable" ], [ size |-> 2, kind |-> "variable" ],
       [ size |-> 3, kind |-> kind3 ], [ size |-> 4, kind |-> "variable" ] >>

\* The pairs the sparsity tests ask for, the last one reversed.
SparsityTestBlocks ==
    << <<1, 1>>, <<4, 4>>, <<2, 2>>, <<3, 3>>, <<2, 3>>, <<4, 1>> >>

\* The problem of CovarianceTest: x of size 2, y of size 3, z of size 1.
FixtureProblem ==
    << [ size |-> 2, kind |-> "variable" ], [ size |-> 3, kind |-> "variable" ],
       [ size |-> 1, kind |-> "variable" ] >>

\* The lists of ComputeCovarianceFailure: x, x, y, y.
DuplicateParameterBlocks == << 1, 1, 2, 2 >>

DuplicateCovarianceBlocks == << <<1, 1>>, <<1, 1>>, <<2, 2>>, <<2, 2>> >>

\* The problem of the ZeroSizedManifold tests: x, and y whose only coordinate
\* is held constant by a SubsetManifold.
ZeroSizedManifoldProblem ==
    << [ size |-> 1, kind |-> "variable" ], [ size |-> 1, kind |-> "zero_tangent" ] >>

ZeroSizedManifoldBlocks == << <<1, 1>>, <<1, 2>>, <<2, 1>>, <<2, 2>> >>

CovarianceProblems ==
    { [ i \in 1..3 |-> [ size |-> i, kind |-> kinds[i] ] ] :
          kinds \in { kinds \in [1..3 -> BlockKinds] :
                         Cardinality({ i \in 1..3 : kinds[i] # "variable" }) <= 1 } }
    \cup { SparsityTestProblem(kind3) : kind3 \in {"variable", "constant", "unused"} }
    \cup { FixtureProblem, ZeroSizedManifoldProblem }

SeqsUpTo(S, n) == UNION { [1..k -> S] : k \in 0..n }

\* The lists of pairs Compute is called with: the lists of the tests, and for
\* a problem of up to three parameter blocks every list of up to MaxPairs pairs.
CovarianceBlockLists(problem) ==
    LET blocks == DOMAIN problem
    IN  (IF Len(problem) <= 3 THEN SeqsUpTo(blocks \X blocks, MaxPairs) ELSE {})
        \cup { list \in { SparsityTestBlocks, DuplicateCovarianceBlocks,
                          ZeroSizedManifoldBlocks } :
                   \A k \in DOMAIN list : list[k][1] \in blocks /\ list[k][2] \in blocks }

\* The lists of parameter blocks Compute is called with.
ParameterBlockLists(problem) ==
    SeqsUpTo(DOMAIN problem, MaxPairs)
    \cup { list \in { DuplicateParameterBlocks } : \A k \in DOMAIN list : list[k] \in DOMAIN problem }

RECURSIVE Flatten(_)
Flatten(seqs) == IF seqs = << >> THEN << >> ELSE Head(seqs) \o Flatten(Tail(seqs))

RECURSIVE Ascending(_)
Ascending(numbers) ==
    IF numbers = {} THEN << >>
    ELSE LET least == CHOOSE n \in numbers : \A m \in numbers : n <= m
         IN  << least >> \o Ascending(numbers \ {least})

RECURSIVE TotalSize(_, _)
TotalSize(problem, blocks) ==
    IF blocks = {} THEN 0
    ELSE LET b == CHOOSE b \in blocks : TRUE
         IN  problem[b].size + TotalSize(problem, blocks \ {b})

\* Mutant of TangentSize: the tangent space always has the size of the block.
TangentSizeAmbient(problem, block) == problem[block].size

TangentSize(problem, block) ==
    IF problem[block].kind = "zero_tangent" THEN 0 ELSE problem[block].size

\* Constant blocks and blocks that occur in no residual block have no
\* covariance to compute.
IsActive(problem, block) == problem[block].kind \notin {"constant", "unused"}

\* Mutant of HasDuplicates: the list is not examined.
HasDuplicatesUnchecked(list) == FALSE

HasDuplicates(list) == \E i, j \in DOMAIN list : i < j /\ list[i] = list[j]

\* For each entry that occurs more than once, the indices at which it occurs.
DuplicateIndices(list) ==
    { { j - 1 : j \in { j \in DOMAIN list : list[j] = list[i] } } :
          i \in { i \in DOMAIN list : \E j \in DOMAIN list : j # i /\ list[j] = list[i] } }

\* Compute for a list of parameter blocks asks for every pair of them.
AllPairs(list) ==
    Flatten([ i \in DOMAIN list |-> [ j \in 1..(Len(list) - i + 1) |-> << list[i], list[i + j - 1] >> ] ])

\* Mutant of UpperTriangular: a pair is stored as it was given.
UpperTriangularAsGiven(pair) == pair

\* The block of a pair lies in the upper block triangle.
UpperTriangular(pair) == IF pair[1] <= pair[2] THEN pair ELSE << pair[2], pair[1] >>

\* The pairs that have a block in the matrix, each in the upper triangle.
StoredBlocks(problem, pairs) ==
    LET kept == SelectSeq(pairs, LAMBDA pair :
                    IsActive(problem, pair[1]) /\ IsActive(problem, pair[2]))
    IN  [ k \in DOMAIN kept |-> UpperTriangular(kept[k]) ]

BlocksOf(stored) == { stored[k][1] : k \in DOMAIN stored } \cup { stored[k][2] : k \in DOMAIN stored }

\* The first row (and column) of a parameter block of the matrix.
RowBegin(problem, stored, block) ==
    TotalSize(problem, { b \in BlocksOf(stored) : b < block })

\* The column blocks of a row block, in increasing order, one for each stored pair.
ColumnBlocks(problem, stored, row_block) ==
    Flatten([ col_block \in DOMAIN problem |->
                  [ n \in 1..Cardinality({ k \in DOMAIN stored :
                                              stored[k] = << row_block, col_block >> }) |->
                        col_block ] ])

\* The columns of one row of a row block.
RowColumns(problem, stored, row_block) ==
    LET col_blocks == ColumnBlocks(problem, stored, row_block)
    IN  Flatten([ c \in DOMAIN col_blocks |->
                      [ k \in 1..problem[col_blocks[c]].size |->
                            RowBegin(problem, stored, col_blocks[c]) + k - 1 ] ])

\* CovarianceImpl::ComputeCovarianceSparsity: the pattern of the matrix.
CovarianceSparsity(problem, pairs) ==
    LET stored == StoredBlocks(problem, pairs)
        row_blocks == Ascending(BlocksOf(stored))
        matrix_rows ==
            Flatten([ n \in DOMAIN row_blocks |->
                          [ r \in 1..problem[row_blocks[n]].size |->
                                RowColumns(problem, stored, row_blocks[n]) ] ])
    IN  [ num_rows |-> Len(matrix_rows),
          num_cols |-> Len(matrix_rows),
          rows |-> [ r \in 1..(Len(matrix_rows) + 1) |->
                         Len(Flatten(SubSeq(matrix_rows, 1, r - 1))) ],
          cols |-> Flatten(matrix_rows) ]

\* Covariance::Compute, for a list of pairs or for a list of parameter blocks:
\* duplicates are fatal; otherwise the pattern is built and the values are
\* computed, which fails for a Jacobian that is rank deficient.
ComputeFor(list, pairs) ==
    /\ compute_outcome = "none"
    /\ cov_problem # << >>
    /\ compute_input' = list
    /\ IF HasDuplicates(list)
       THEN /\ compute_outcome' = "aborted"
            /\ abort_message' = DuplicateIndices(list)
            /\ UNCHANGED << covariance_blocks, covariance_matrix >>
       ELSE /\ covariance_blocks' = pairs
            /\ covariance_matrix' = CovarianceSparsity(cov_problem, pairs)
            /\ \E full_rank \in BOOLEAN :
                  compute_outcome' = IF full_rank THEN "true" ELSE "false"
            /\ UNCHANGED abort_message
    /\ UNCHANGED << cov_problem, buffer, last_get >>

ComputeCovarianceBlocks ==
    \E list \in CovarianceBlockLists(cov_problem) : ComputeFor(list, list)

ComputeParameterBlocks ==
    \E list \in ParameterBlockLists(cov_problem) : ComputeFor(list, AllPairs(list))

Untouched == -1

\* The caller's buffer after n values have been written to its beginning.
Written(capacity, n, value) ==
    [ k \in 1..capacity |-> IF k <= n THEN value ELSE Untouched ]

\* 1 stands for a computed covariance; the covariance with a block that does
\* not vary is zero.
CovarianceValue(problem, block1, block2) ==
    IF /\ IsActive(problem, block1) /\ TangentSize(problem, block1) > 0
       /\ IsActive(problem, block2) /\ TangentSize(problem, block2) > 0
    THEN 1 ELSE 0

Requested(block1, block2) ==
    \E k \in DOMAIN covariance_blocks :
        covariance_blocks[k] \in { << block1, block2 >>, << block2, block1 >> }

\* The caller hands over a buffer for a block in the ambient space.
GetCovarianceBlock(block1, block2) ==
    /\ compute_outcome = "true"
    /\ Requested(block1, block2)
    /\ last_get' = [ method |-> "GetCovarianceBlock", block1 |-> block1, block2 |-> block2 ]
    /\ buffer' = Written(cov_problem[block1].size * cov_problem[block2].size,
                         cov_problem[block1].size * cov_problem[block2].size,
                         CovarianceValue(cov_problem, block1, block2))
    /\ UNCHANGED << cov_problem, compute_input, covariance_blocks, covariance_matrix,
                    compute_outcome, abort_message >>

GetCovarianceBlockInTangentSpace(block1, block2) ==
    /\ compute_outcome = "true"
    /\ Requested(block1, block2)
    /\ last_get' = [ method |-> "GetCovarianceBlockInTangentSpace",
                     block1 |-> block1, block2 |-> block2 ]
    /\ buffer' = Written(cov_problem[block1].size * cov_problem[block2].size,
                         TangentSize(cov_problem, block1) * TangentSize(cov_problem, block2),
                         CovarianceValue(cov_problem, block1, block2))
    /\ UNCHANGED << cov_problem, compute_input, covariance_blocks, covariance_matrix,
                    compute_outcome, abort_message >>

CovarianceSpecInit ==
    /\ NoSolve
    /\ OrderingInit
    /\ cov_problem \in CovarianceProblems
    /\ CovarianceInit
    /\ NoPreconditioner

CovarianceNext ==
    \/ ComputeCovarianceBlocks /\ UNCHANGED << minimizer_vars, problem_vars, ordering_vars, preconditioner_vars >>
    \/ ComputeParameterBlocks /\ UNCHANGED << minimizer_vars, problem_vars, ordering_vars, preconditioner_vars >>
    \/ \E block1, block2 \in DOMAIN cov_problem :
          GetCovarianceBlock(block1, block2)
             /\ UNCHANGED << minimizer_vars, problem_vars, ordering_vars, preconditioner_vars >>
    \/ \E block1, block2 \in DOMAIN cov_problem :
          GetCovarianceBlockInTangentSpace(block1, block2)
             /\ UNCHANGED << minimizer_vars, problem_vars, ordering_vars, preconditioner_vars >>

CovarianceSpec == CovarianceSpecInit /\ [][CovarianceNext]_vars

(***************************************************************************)
(* Preconditioners.  Matrices are 1 x 1 and vectors have one entry; an     *)
(* entry is a number of 0..MaxEntry.                                       *)
(***************************************************************************)
MaxEntry == 2

Entries == 0..MaxEntry

PreconditionerType ==
    {"IDENTITY", "JACOBI", "SCHUR_JACOBI", "CLUSTER_JACOBI", "CLUSTER_TRIDIAGONAL",
     "SUBSET", "SCHUR_POWER_SERIES_EXPANSION"}

\* Mutant of PreconditionerForZeroEBlocks: the type is handed back as given.
PreconditionerForZeroEBlocksAsGiven(preconditioner_type) == preconditioner_type

PreconditionerForZeroEBlocks(preconditioner_type) ==
    IF \/ preconditioner_type = "SCHUR_JACOBI"
       \/ preconditioner_type = "CLUSTER_JACOBI"
       \/ preconditioner_type = "CLUSTER_TRIDIAGONAL"
    THEN "JACOBI"
    ELSE preconditioner_type

\* The preconditioner of a problem without e-blocks is chosen.
ChoosePreconditionerForZeroEBlocks ==
    /\ preconditioner_type_given # "NONE"
    /\ preconditioner_type_used = "NONE"
    /\ preconditioner_type_used' = PreconditionerForZeroEBlocks(preconditioner_type_given)
    /\ UNCHANGED << preconditioner_type_given, preconditioner, product >>

\* The preconditioners that are modelled: the identity, the Jacobi
\* preconditioner, and a SparseMatrixPreconditionerWrapper around a matrix.
Preconditioners ==
    { [ variant |-> "IDENTITY", matrix_ |-> 0, A |-> -1, D |-> -1, update_result |-> "none" ],
      [ variant |-> "JACOBI", matrix_ |-> 0, A |-> -1, D |-> -1, update_result |-> "none" ] }
    \cup { [ variant |-> "WRAPPER", matrix_ |-> matrix, A |-> -1, D |-> -1,
             update_result |-> "none" ] : matrix \in Entries }

\* SparseMatrixPreconditionerWrapper::UpdateImpl.
WrapperUpdateImpl(A, D) == TRUE

\* The diagonal block the Jacobi preconditioner inverts.
JacobiBlock(A, D) == A * A + D * D

UpdateImpl(variant, A, D) ==
    CASE variant = "WRAPPER" -> WrapperUpdateImpl(A, D)
      [] variant = "IDENTITY" -> TRUE
      [] variant = "JACOBI" -> JacobiBlock(A, D) # 0

\* Preconditioner::Update.
Update(A, D) ==
    /\ preconditioner.variant # "NONE"
    /\ preconditioner' =
          [ preconditioner EXCEPT !.A = A, !.D = D,
               !.update_result =
                   IF UpdateImpl(preconditioner.variant, A, D) THEN "true" ELSE "false" ]
    /\ product' = NoProduct
    /\ UNCHANGED << preconditioner_type_given, preconditioner_type_used >>

\* Mutant of WrapperMatrix: the wrapper multiplies by the matrix of the latest Update.
WrapperMatrixOfUpdate(p) == p.A

\* The matrix SparseMatrixPreconditionerWrapper multiplies by.
WrapperMatrix(p) == p.matrix_

\* y + M x as a fraction, M the operator a preconditioner applies.
Applied(p, x_, y) ==
    CASE p.variant = "WRAPPER" -> [ num |-> y + WrapperMatrix(p) * x_, den |-> 1 ]
      [] p.variant = "IDENTITY" -> [ num |-> y + x_, den |-> 1 ]
      [] p.variant = "JACOBI" ->
            [ num |-> y * JacobiBlock(p.A, p.D) + x_, den |-> JacobiBlock(p.A, p.D) ]

\* RightMultiplyAndAccumulate(x, y): y = y + M x (x_ is its x).  The wrapper has its matrix
\* from its construction on; the others are built by a successful Update.
RightMultiplyAndAccumulate(x_, y) ==
    /\ preconditioner.variant # "NONE"
    /\ preconditioner.variant = "WRAPPER" \/ preconditioner.update_result = "true"
    /\ LET result == Applied(preconditioner, x_, y)
       IN  product' = [ x |-> x_, y |-> y, num |-> result.num, den |-> result.den ]
    /\ UNCHANGED << preconditioner_type_given, preconditioner_type_used, preconditioner >>

PreconditionerSpecInit ==
    /\ NoSolve
    /\ OrderingInit
    /\ NoCovariance
    /\ preconditioner_type_given \in PreconditionerType
    /\ preconditioner_type_used = "NONE"
    /\ preconditioner \in Preconditioners
    /\ product = NoProduct

PreconditionerNext ==
    \/ ChoosePreconditionerForZeroEBlocks
          /\ UNCHANGED << minimizer_vars, problem_vars, ordering_vars, covariance_vars >>
    \/ \E A, D \in Entries :
          Update(A, D)
             /\ UNCHANGED << minimizer_vars, problem_vars, ordering_vars, covariance_vars >>
    \/ \E x_, y \in Entries :
          RightMultiplyAndAccumulate(x_, y)
             /\ UNCHANGED << minimizer_vars, problem_vars, ordering_vars, covariance_vars >>

PreconditionerSpec == PreconditionerSpecInit /\ [][PreconditionerNext]_vars

TypeOK ==
    /\ options \in Options
    /\ pc \in {"Validation", "Preprocessing", "Start", "StepComputation",
               "StepEvaluation", "Accepted", "Rejected", "IterationEnd", "Terminated"}
    /\ x \in X /\ candidate_x \in X /\ parameters \in X /\ user_parameters \in X
    /\ termination_type \in TerminationType \cup {"NONE"}
    /\ callback_verdict \in CallbackReturnType \cup {"NONE"}
    /\ radius \in Nat
    \* every radius the loop halves is even: Half is exact
    /\ (radius >= options.min_trust_region_radius => radius % 2 = 0)

(***************************************************************************)
(* Properties.                                                             *)
(***************************************************************************)
Terminated == pc = "Terminated"

LastSummary == iterations[Len(iterations)]

InStep == pc \in {"StepComputation", "StepEvaluation", "Accepted", "Rejected"}

\* C1 as stated: in every reachable state
\* min_trust_region_radius <= radius <= max_trust_region_radius.
C1_RadiusWithinBoundsAlways ==
    /\ options.min_trust_region_radius <= radius
    /\ radius <= options.max_trust_region_radius

\* C1 as amended: the radius never exceeds max_trust_region_radius, and it is
\* at least min_trust_region_radius whenever a step is being computed or
\* evaluated; it is below the minimum only at the end of the iteration that
\* shrank it and in the terminated state that follows.
C1_RadiusWithinBounds ==
    /\ radius <= options.max_trust_region_radius
    /\ (InStep \/ pc = "Start") => options.min_trust_region_radius <= radius

\* A step was accepted with a strong ratio at a radius whose double exceeds the
\* maximum: the radius was clamped to the maximum.
C1_Witness ==
    /\ pc = "IterationEnd"
    /\ iteration_summary.step_is_successful
    /\ Len(iterations) > 0
    /\ 2 * LastSummary.trust_region_radius > options.max_trust_region_radius
    /\ radius = options.max_trust_region_radius

\* C2: once a radius update has left the radius below min_trust_region_radius
\* the iteration ends, its end terminates the minimizer, and a terminated
\* minimizer never requests a step again.
C2_TerminatesBelowMinRadius ==
    [][ /\ (radius' < options.min_trust_region_radius
               => pc' \in {"IterationEnd", "Terminated"})
        /\ (radius < options.min_trust_region_radius /\ pc = "IterationEnd"
               => pc' = "Terminated")
        /\ (Terminated => pc' = "Terminated") ]_vars

\* The minimizer has terminated with a radius below the minimum and without
\* the callback or the iteration limit asking for it.
C2_Witness ==
    /\ Terminated
    /\ radius < options.min_trust_region_radius
    /\ callback_verdict = "SOLVER_CONTINUE"
    /\ termination_type = "CONVERGENCE"
    /\ iteration < options.max_num_iterations

\* C3: in monotone mode every accepted step has a ratio of actual to predicted
\* decrease above min_relative_decrease.
C3_AcceptedStepsDecrease ==
    ~options.use_nonmonotonic_steps =>
        /\ \A i \in DOMAIN iterations :
              iterations[i].step_is_successful =>
                  /\ iterations[i].model_cost_change > 0
                  /\ iterations[i].cost_change * PerMille >
                        options.min_relative_decrease * iterations[i].model_cost_change
        /\ pc = "Accepted" =>
              (x_cost - candidate_cost) * PerMille >
                  options.min_relative_decrease * model_cost_change

\* Monotone mode, one step accepted and one rejected although it lowered the cost.
C3_Witness ==
    /\ ~options.use_nonmonotonic_steps
    /\ \E i \in DOMAIN iterations : iterations[i].step_is_successful
    /\ \E i \in DOMAIN iterations :
          /\ iterations[i].step_is_valid
          /\ ~iterations[i].step_is_successful
          /\ iterations[i].cost_change > 0

\* C4 as stated: in non-monotonic mode, on every termination the user's
\* parameters are the minimum-cost iterate and their cost is at most the cost
\* of every iteration.
C4_ReturnsMinimumCostIterateAlways ==
    (options.use_nonmonotonic_steps /\ Terminated) =>
        /\ user_parameters = parameters
        /\ \A i \in DOMAIN iterations : Cost(user_parameters) <= iterations[i].cost

\* C4 as amended: the same, for the terminations that return a usable solution
\* (CONVERGENCE, NO_CONVERGENCE, USER_SUCCESS).
C4_ReturnsMinimumCostIterate ==
    (options.use_nonmonotonic_steps /\ Terminated /\ IsSolutionUsable(termination_type)) =>
        /\ user_parameters = parameters
        /\ \A i \in DOMAIN iterations : Cost(user_parameters) <= iterations[i].cost

\* A usable termination after a non-monotonic step: the last accepted iterate
\* is not the one returned.
C4_Witness ==
    /\ options.use_nonmonotonic_steps
    /\ Terminated
    /\ IsSolutionUsable(termination_type)
    /\ \E i \in DOMAIN iterations : iterations[i].step_is_nonmonotonic
    /\ x_cost > minimum_cost
    /\ user_parameters # x

C6_Terminates ==
    /\ <>Terminated
    /\ [](iteration <= options.max_num_iterations)

\* The iteration limit itself ended a run.
C6_Witness ==
    /\ Terminated
    /\ termination_type = "NO_CONVERGENCE"
    /\ callback_verdict = "SOLVER_CONTINUE"
    /\ iteration = options.max_num_iterations
    /\ iteration = MaxIterations

\* C7: SOLVER_ABORT ends the solve with USER_FAILURE, SOLVER_TERMINATE_SUCCESSFULLY
\* with USER_SUCCESS, SOLVER_CONTINUE never ends it, and the two user
\* termination types are reported for these verdicts only.
C7_VerdictDeterminesTermination ==
    /\ callback_verdict = "SOLVER_ABORT" =>
          Terminated /\ termination_type = "USER_FAILURE"
    /\ callback_verdict = "SOLVER_TERMINATE_SUCCESSFULLY" =>
          Terminated /\ termination_type = "USER_SUCCESS"
    /\ termination_type = "USER_FAILURE" => callback_verdict = "SOLVER_ABORT"
    /\ termination_type = "USER_SUCCESS" =>
          callback_verdict = "SOLVER_TERMINATE_SUCCESSFULLY"
    /\ (callback_verdict = "SOLVER_CONTINUE" /\ Terminated) =>
          termination_type \in {"CONVERGENCE", "NO_CONVERGENCE", "FAILURE"}

\* An abort at the very moment the iteration limit was reached.
C7_Witness ==
    /\ Terminated
    /\ callback_verdict = "SOLVER_ABORT"
    /\ termination_type = "USER_FAILURE"
    /\ iteration = options.max_num_iterations

\* C8: after SOLVER_ABORT with update_state_every_iteration false the user's
\* parameter block holds the values it had when Solve was called.
C8_AbortLeavesParameters ==
    (Terminated /\ callback_verdict = "SOLVER_ABORT"
        /\ ~options.update_state_every_iteration) =>
            user_parameters = initial_parameters

\* An abort after a step had been accepted.
C8_Witness ==
    /\ Terminated
    /\ callback_verdict = "SOLVER_ABORT"
    /\ ~options.update_state_every_iteration
    /\ x # initial_parameters
    /\ parameters # initial_parameters

\* C9: the callback has run once for each completed iteration and never
\* within an iteration, and after a verdict other than SOLVER_CONTINUE no
\* later iteration begins.
C9_CallbackOncePerIteration ==
    /\ num_callback_calls = Len(iterations)
    /\ pc = "StepComputation" => num_callback_calls = iteration + 1
    /\ pc \in {"StepEvaluation", "Accepted", "Rejected", "IterationEnd"} =>
          num_callback_calls = iteration
    /\ callback_verdict \in {"SOLVER_ABORT", "SOLVER_TERMINATE_SUCCESSFULLY"} =>
          Terminated /\ num_callback_calls = iteration + 1
    /\ (InStep \/ pc = "IterationEnd") /\ iteration > 0 =>
          callback_verdict = "SOLVER_CONTINUE"

\* The callback ended the solve after its third invocation.
C9_Witness ==
    /\ Terminated
    /\ callback_verdict = "SOLVER_TERMINATE_SUCCESSFULLY"
    /\ num_callback_calls = 3
    /\ iteration = 2

RECURSIVE MinimumCostIn(_)
MinimumCostIn(s) ==
    IF Len(s) = 1 THEN s[1].cost ELSE Min(s[1].cost, MinimumCostIn(Tail(s)))

\* C10: with update_state_every_iteration, what a callback invocation finds in
\* the user's parameter block is the best solution found so far: the iterate
\* of minimum cost over the iterations completed.
C10_CallbackSeesBestSolution ==
    (options.update_state_every_iteration /\ num_callback_calls > 0
        /\ pc # "IterationEnd") =>
            /\ callback_saw = parameters
            /\ Cost(callback_saw) = MinimumCostIn(iterations)
            /\ ~Terminated => user_parameters = callback_saw

\* The third callback invocation came after a non-monotonic accepted step: the
\* user's parameter block held the best iterate, not the current one.
C10_Witness ==
    /\ options.update_state_every_iteration
    /\ Terminated
    /\ num_callback_calls = 3
    /\ LastSummary.step_is_nonmonotonic
    /\ callback_saw # x

\* C13: of a solve that has returned, IsSolutionUsable is true when the
\* termination type is CONVERGENCE, USER_SUCCESS or NO_CONVERGENCE, false when
\* it is FAILURE or USER_FAILURE, and there is no other termination type.
C13_IsSolutionUsable ==
    Terminated =>
        /\ termination_type \in {"CONVERGENCE", "USER_SUCCESS", "NO_CONVERGENCE"} =>
              IsSolutionUsable(termination_type)
        /\ termination_type \in {"FAILURE", "USER_FAILURE"} =>
              ~IsSolutionUsable(termination_type)
        /\ termination_type \in {"CONVERGENCE", "USER_SUCCESS", "NO_CONVERGENCE",
                                 "FAILURE", "USER_FAILURE"}

\* The solve ran out of iterations without converging and its solution is
\* usable: the user's parameter block has been given the best iterate.
C13_Witness ==
    /\ Terminated
    /\ termination_type = "NO_CONVERGENCE"
    /\ IsSolutionUsable(termination_type)
    /\ iteration = options.max_num_iterations
    /\ user_parameters = parameters
    /\ user_parameters # initial_parameters

\* C20: the radius update of an iteration whose step was valid turns the
\* radius into min(2 x radius, max_trust_region_radius) on a strong ratio, into
\* 0.5 x radius on a weak or negative ratio, and leaves it unchanged otherwise;
\* an invalid step halves it; no step changes it otherwise.
C20_RadiusDoubledOrHalved ==
    [][ LET cost_change == x_cost - candidate_cost
        IN  IF pc \in {"Accepted", "Rejected"}
            THEN radius' =
                    IF RatioExceeds(cost_change, model_cost_change, eta_1)
                    THEN Min(2 * radius, options.max_trust_region_radius)
                    ELSE IF RatioBelow(cost_change, model_cost_change, eta_2)
                         THEN Half(radius)
                         ELSE radius
            ELSE radius' \in {radius, Half(radius)} ]_vars

\* C21: an iteration in which the linear solver failed leaves x and its cost
\* as they were; while the number of consecutive invalid steps, this one
\* included, does not exceed max_num_consecutive_invalid_steps it halves the
\* radius and ends as an iteration like any other, and when the number exceeds
\* the limit the solve ends with FAILURE; a new step is computed at the x of
\* the iteration before; and a solve ends with FAILURE only with the counter
\* above the limit.
C21_LinearSolverFailureIsRetried ==
    /\ [][ (pc = "StepEvaluation" /\ step_status = "LINEAR_SOLVER_FAILURE") =>
              /\ x' = x /\ x_cost' = x_cost
              /\ num_consecutive_invalid_steps' = num_consecutive_invalid_steps + 1
              /\ IF num_consecutive_invalid_steps' > options.max_num_consecutive_invalid_steps
                 THEN pc' = "Terminated" /\ termination_type' = "FAILURE"
                 ELSE /\ pc' = "IterationEnd"
                      /\ termination_type' = "NONE"
                      /\ radius' = Half(radius) ]_vars
    /\ [][ pc' = "StepComputation" => x' = x /\ x_cost' = x_cost ]_vars
    /\ [](termination_type = "FAILURE" =>
              num_consecutive_invalid_steps > options.max_num_consecutive_invalid_steps)

\* After a failure of the linear solver in iteration 1 the radius is half the
\* initial one and step 2 is about to be computed at the initial point.
C21_Witness ==
    /\ pc = "StepComputation"
    /\ iteration = 1
    /\ num_linear_solver_failures = 1
    /\ num_consecutive_invalid_steps = 1
    /\ radius = Half(options.initial_trust_region_radius)
    /\ x = initial_parameters
    /\ termination_type = "NONE"

\* C22 as stated: an iteration whose step is not finite has the successor
\* state of a rejected step: the counter of consecutive invalid steps is zero
\* after it, as after every rejected step, and the solve goes on.
C22_NonFiniteStepIsARejectedStep ==
    [][ (pc = "StepEvaluation" /\ step_status = "NON_FINITE_STEP") =>
            num_consecutive_invalid_steps' = 0 /\ pc' # "Terminated" ]_vars

\* C22 as amended: a step whose candidate cost is not finite is rejected as a
\* step of weak ratio is: the counter is reset, x, its cost and the best
\* iterate stay, the radius is halved and the record says valid and not
\* successful.  A step that is itself not finite keeps x and its cost as well
\* and halves the radius, but it increments the counter, and it ends the solve
\* with FAILURE when the counter exceeds the limit.
C22_NonFiniteCostRejectedNonFiniteStepInvalid ==
    /\ [][ (pc = "StepEvaluation" /\ step_status = "LINEAR_SOLVER_SUCCESS"
              /\ model_cost_change > 0 /\ candidate_cost' = Infinity) =>
                pc' = "Rejected" /\ num_consecutive_invalid_steps' = 0
                   /\ x' = x /\ x_cost' = x_cost /\ radius' = radius ]_vars
    /\ [][ (pc = "Rejected" /\ candidate_cost = Infinity) =>
                /\ x' = x /\ x_cost' = x_cost
                /\ parameters' = parameters /\ minimum_cost' = minimum_cost
                /\ radius' = Half(radius)
                /\ num_consecutive_invalid_steps' = 0
                /\ iteration_summary'.step_is_valid
                /\ ~iteration_summary'.step_is_successful
                /\ pc' = "IterationEnd" ]_vars
    /\ [][ (pc = "StepEvaluation" /\ step_status = "NON_FINITE_STEP") =>
                /\ x' = x /\ x_cost' = x_cost
                /\ parameters' = parameters /\ minimum_cost' = minimum_cost
                /\ num_consecutive_invalid_steps' = num_consecutive_invalid_steps + 1
                /\ IF num_consecutive_invalid_steps' > options.max_num_consecutive_invalid_steps
                   THEN pc' = "Terminated" /\ termination_type' = "FAILURE"
                   ELSE /\ pc' = "IterationEnd"
                        /\ radius' = Half(radius)
                        /\ ~iteration_summary'.step_is_valid
                        /\ ~iteration_summary'.step_is_successful ]_vars

\* The solve has failed in an iteration whose step was not finite, every
\* invalid step before it having been one that was not finite as well.
C22_Witness ==
    /\ pc = "Terminated"
    /\ termination_type = "FAILURE"
    /\ step_status = "NON_FINITE_STEP"
    /\ num_linear_solver_failures = 0
    /\ num_consecutive_invalid_steps = options.max_num_consecutive_invalid_steps + 1

\* C26: the records of Solver::Summary::iterations are numbered 0, 1, 2, ...
\* in their order; a step of the minimizer either leaves the sequence as it is
\* or, at the end of an iteration and only there, appends one record, that of
\* the iteration that ends, and leaves the records before it as they were;
\* and when a step is to be computed every iteration begun so far has its
\* record.
C26_IterationsAppendOnly ==
    /\ [](\A k \in DOMAIN iterations : iterations[k].iteration = k - 1)
    /\ [][ IF pc = "IterationEnd"
           THEN /\ Len(iterations') = Len(iterations) + 1
                /\ SubSeq(iterations', 1, Len(iterations)) = iterations
                /\ iterations'[Len(iterations')].iteration = iteration
           ELSE iterations' = iterations ]_vars
    /\ [](pc = "StepComputation" => Len(iterations) = iteration + 1)

\* A solve of three iterations has ended: the records are those of the
\* iterations 0, 1 and 2.
C26_Witness ==
    /\ pc = "Terminated"
    /\ Len(iterations) = 3
    /\ iterations[1].iteration = 0
    /\ iterations[3].iteration = 2

\* C27: once the starting point is evaluated, x, its cost, the best iterate
\* and the window of reference costs change only in the step that accepts a
\* valid step; a step of the minimizer that handles an
\* invalid step or rejects a step changes nothing but the radius, the counter
\* of consecutive invalid steps, the summary of the iteration and, when the
\* solve fails, its termination; and the step after such an iteration is
\* computed at the same x.
C27_UnsuccessfulStepKeepsIterate ==
    /\ [][ (pc # "Start"
              /\ (x' # x \/ x_cost' # x_cost \/ parameters' # parameters
                    \/ reference_costs' # reference_costs)) =>
                /\ step_status = "LINEAR_SOLVER_SUCCESS"
                /\ model_cost_change > 0
                /\ candidate_cost < Infinity
                /\ iteration_summary'.step_is_successful
                /\ x' = candidate_x /\ x_cost' = candidate_cost ]_vars
    /\ [][ (pc = "Rejected"
              \/ (pc = "StepEvaluation"
                    /\ (step_status # "LINEAR_SOLVER_SUCCESS" \/ model_cost_change = 0))) =>
                UNCHANGED << x, x_cost, parameters, minimum_cost, reference_costs,
                             user_parameters, iterations, iteration, candidate_x,
                             num_linear_solver_failures, num_callback_calls >> ]_vars
    /\ [][ (pc = "IterationEnd" /\ ~iteration_summary.step_is_successful) =>
                x' = x /\ x_cost' = x_cost /\ radius' = radius
                   /\ num_consecutive_invalid_steps' = num_consecutive_invalid_steps ]_vars

\* Iteration 1 rejected a step and iteration 2 had an invalid one: the step
\* of iteration 3 would be computed at the starting point.
C27_Witness ==
    /\ Len(iterations) = 3
    /\ iterations[2].step_is_valid /\ ~iterations[2].step_is_successful
    /\ ~iterations[3].step_is_valid
    /\ x = initial_parameters
    /\ x_cost = iterations[1].cost
    /\ iterations[3].trust_region_radius < iterations[2].trust_region_radius

\* C29: in every IterationSummary of the log and in the one of the iteration
\* in progress, a successful step is a valid one, a non-monotonic step is a
\* successful one taken with use_nonmonotonic_steps, and the three flags are
\* false in the record of iteration 0.
C29_SummaryFlags ==
    LET Consistent(summary) ==
            /\ summary.step_is_successful => summary.step_is_valid
            /\ summary.step_is_nonmonotonic =>
                  summary.step_is_successful /\ options.use_nonmonotonic_steps
            /\ summary.iteration = 0 =>
                  /\ ~summary.step_is_valid
                  /\ ~summary.step_is_successful
                  /\ ~summary.step_is_nonmonotonic
    IN  /\ \A k \in DOMAIN iterations : Consistent(iterations[k])
        /\ Consistent(iteration_summary)

\* The log holds a non-monotonic step: one that was accepted although the
\* cost went up.
C29_Witness ==
    /\ Len(iterations) >= 3
    /\ iterations[3].step_is_nonmonotonic
    /\ iterations[3].step_is_successful
    /\ iterations[3].cost > iterations[2].cost
    /\ options.use_nonmonotonic_steps

(***************************************************************************)
(* Properties of a solve with inner iterations (InnerSpec).                *)
(***************************************************************************)
\* C23: inner iterations are made only in the step that accepts a step, and
\* only while they are enabled; when the relative decrease they bring is
\* below inner_iteration_tolerance they are disabled, and otherwise they stay
\* enabled; and once they are disabled they stay disabled and are never made
\* again, whatever steps are accepted later.
C23_InnerIterationsDisabledForGood ==
    /\ [][ num_inner_iteration_steps' # num_inner_iteration_steps =>
              /\ pc = "Accepted"
              /\ inner_iterations_are_enabled
              /\ num_inner_iteration_steps' = num_inner_iteration_steps + 1
              /\ iteration_summary'.step_is_successful ]_vars
    /\ [][ (pc = "Accepted" /\ inner_iterations_are_enabled) =>
              /\ num_inner_iteration_steps' = num_inner_iteration_steps + 1
              /\ x_cost' <= candidate_cost
              /\ inner_iterations_are_enabled' =
                    ~((candidate_cost - x_cost') * PerMille
                          < options.inner_iteration_tolerance * candidate_cost) ]_vars
    /\ [][ ~inner_iterations_are_enabled =>
              /\ ~inner_iterations_are_enabled'
              /\ num_inner_iteration_steps' = num_inner_iteration_steps ]_vars

\* Inner iterations were made after the accepted step of iteration 1 and
\* brought too little; the step of iteration 2 was accepted without them.
C23_Witness ==
    /\ Len(iterations) >= 3
    /\ iterations[2].step_is_successful
    /\ iterations[3].step_is_successful
    /\ num_inner_iteration_steps = 1
    /\ ~inner_iterations_are_enabled

\* The number of invalid steps at the end of the log.
RECURSIVE TrailingInvalidSteps(_)
TrailingInvalidSteps(log) ==
    IF log = << >> THEN 0
    ELSE LET last == log[Len(log)]
         IN  IF last.iteration > 0 /\ ~last.step_is_valid
             THEN 1 + TrailingInvalidSteps(SubSeq(log, 1, Len(log) - 1))
             ELSE 0

\* C28: the counter of consecutive invalid steps is zero after every valid
\* step and between iterations it is the length of the run of invalid steps
\* that ends the log; a solve that ended with FAILURE ended in an invalid step
\* that followed max_num_consecutive_invalid_steps invalid steps without a
\* valid one between them; so invalid steps with valid steps between them do
\* not end the solve, however many they are.
C28_CounterCountsUninterruptedRuns ==
    /\ pc \in {"Accepted", "Rejected"} => num_consecutive_invalid_steps = 0
    /\ pc \in {"StepComputation", "IterationEnd"} =>
          num_consecutive_invalid_steps
             = TrailingInvalidSteps(IF pc = "IterationEnd"
                                    THEN Append(iterations, iteration_summary)
                                    ELSE iterations)
    /\ termination_type = "FAILURE" =>
          /\ TrailingInvalidSteps(iterations) = options.max_num_consecutive_invalid_steps
          /\ num_consecutive_invalid_steps = options.max_num_consecutive_invalid_steps + 1
          /\ step_status # "LINEAR_SOLVER_SUCCESS" \/ model_cost_change = 0

\* Two invalid steps, more than max_num_consecutive_invalid_steps = 1, with
\* a valid step between them: the solve has not failed.
C28_Witness ==
    /\ Len(iterations) = 4
    /\ ~iterations[2].step_is_valid
    /\ iterations[3].step_is_valid
    /\ ~iterations[4].step_is_valid
    /\ options.max_num_consecutive_invalid_steps = 1
    /\ termination_type # "FAILURE"
    /\ num_consecutive_invalid_steps = 1

(***************************************************************************)
(* Properties of Solver::Solve (SolveSpec).                                *)
(***************************************************************************)
DoglegWithIterativeSolver ==
    /\ options.trust_region_strategy_type = "DOGLEG"
    /\ options.linear_solver_type \in {"CGNR", "ITERATIVE_SCHUR"}

\* C11: options that combine DOGLEG with CGNR or ITERATIVE_SCHUR are refused
\* by validation: the solve ends in failure with an error description, no
\* preprocessing and no minimizer iteration ever runs, and the strategy and
\* the linear solver of the options are never replaced.
C11_DoglegWithIterativeSolverRejected ==
    [][ DoglegWithIterativeSolver =>
            /\ options' = options
            /\ pc' = "Terminated"
            /\ termination_type' = "FAILURE"
            /\ message' # ""
            /\ iteration' = 0
            /\ iterations' = << >>
            /\ num_callback_calls' = 0
            /\ user_parameters' = initial_parameters ]_vars

\* DOGLEG with ITERATIVE_SCHUR has been refused.
C11_Witness ==
    /\ options.trust_region_strategy_type = "DOGLEG"
    /\ options.linear_solver_type = "ITERATIVE_SCHUR"
    /\ Terminated
    /\ termination_type = "FAILURE"
    /\ message = "DOGLEG only supports exact factorization based linear solvers"

\* C12: every solve that has returned has a summary with a termination type
\* and a message, and after a failure (FAILURE, USER_FAILURE) the user's
\* parameter block holds a known good iterate: the values Solve was called
\* with, or with update_state_every_iteration the best iterate accepted so
\* far; its cost is never above the cost of the starting point.
C12_SummaryAndLastGoodParameters ==
    Terminated =>
        /\ termination_type \in TerminationType
        /\ message # ""
        /\ ~IsSolutionUsable(termination_type) =>
              /\ user_parameters = IF options.update_state_every_iteration
                                   THEN parameters ELSE initial_parameters
              /\ Cost(user_parameters) <= Cost(initial_parameters)

\* The linear solver failed, the next step was invalid too, and the solve
\* failed: the user's parameter block does not hold the invalid candidate.
C12_Witness ==
    /\ Terminated
    /\ termination_type = "FAILURE"
    /\ num_linear_solver_failures = 1
    /\ iteration = 2
    /\ step_status = "LINEAR_SOLVER_SUCCESS"
    /\ candidate_x # user_parameters

SchurSolver ==
    options.linear_solver_type \in {"DENSE_SCHUR", "SPARSE_SCHUR", "ITERATIVE_SCHUR"}

LowestGroupSharesResidual ==
    /\ linear_solver_ordering # << >>
    /\ \E r \in residual_blocks :
          Cardinality(r \cap LowestGroup(linear_solver_ordering)) > 1

Preprocessed == pc \notin {"Validation", "Preprocessing"}

Minimizing ==
    pc \in {"Start", "StepComputation", "StepEvaluation", "Accepted", "Rejected",
            "IterationEnd"}

\* C16 as stated: for a Schur solver, every ordering whose lowest-numbered
\* group holds two parameter blocks of one residual block makes preprocessing
\* fail, and no solve runs with e-blocks that share a residual block.
C16_NonIndependentOrderingAlwaysFails ==
    SchurSolver =>
        /\ (LowestGroupSharesResidual /\ Preprocessed) =>
              Terminated /\ termination_type = "FAILURE" /\ iteration = 0
        /\ (Minimizing \/ iteration > 0) =>
              \A r \in residual_blocks : Cardinality(r \cap e_blocks) <= 1

\* C16 as amended: the same for the orderings of more than one group; with no
\* ordering or an ordering of a single group the solver chooses the e-blocks
\* itself.  In every case no solve runs with e-blocks that share a residual
\* block, and the e-blocks of a usable ordering are its lowest-numbered group.
C16_UserOrderingChecked ==
    SchurSolver =>
        /\ (LowestGroupSharesResidual /\ NumGroups(linear_solver_ordering) > 1
               /\ Preprocessed) =>
              /\ Terminated /\ termination_type = "FAILURE" /\ iteration = 0
              /\ message # ""
              /\ user_parameters = initial_parameters
        /\ (Minimizing \/ iteration > 0) =>
              /\ \A r \in residual_blocks : Cardinality(r \cap e_blocks) <= 1
              /\ NumGroups(linear_solver_ordering) > 1 =>
                    e_blocks = LowestGroup(linear_solver_ordering)

\* An ordering of two groups, the lowest with both points of a residual block
\* on them, has been refused at preprocessing.
C16_Witness ==
    /\ SchurSolver
    /\ NumGroups(linear_solver_ordering) = 2
    /\ LowestGroupSharesResidual
    /\ Terminated
    /\ message = "The first elimination group is not an independent set"
    /\ iteration = 0

(***************************************************************************)
(* Properties of ParameterBlockOrdering (OrderingSpec).                    *)
(***************************************************************************)
GroupsHolding(element) ==
    { g \in DOMAIN group_to_elements : element \in group_to_elements[g] }

\* C14: whatever calls of AddElementToGroup, Remove, Reverse and Clear have
\* been made, every element is in at most one group, and after
\* AddElementToGroup(element, group) with a non-negative group the element is
\* a member of that group and of no other.
C14_ElementInAtMostOneGroup ==
    /\ \A element \in ParameterBlocks : Cardinality(GroupsHolding(element)) <= 1
    /\ \A g \in DOMAIN group_to_elements : group_to_elements[g] # {}
    /\ (last_call.method = "AddElementToGroup" /\ last_call.group >= 0) =>
          /\ GroupsHolding(last_call.element) = {last_call.group}
          /\ return_value = TRUE

\* An element that was in group 0 has been added to group 1, the other
\* elements being in the ordering as well.
C14_Witness ==
    /\ last_call.method = "AddElementToGroup"
    /\ last_call.group_id = 0
    /\ last_call.group = 1
    /\ NumElements = Cardinality(ParameterBlocks)

C17_DuplicatesAbort ==
    LET Duplicate(i, j) == i < j /\ compute_input[i] = compute_input[j]
    IN  /\ (\E i, j \in DOMAIN compute_input : Duplicate(i, j)) =>
              /\ compute_outcome = "aborted"
              /\ covariance_matrix = NoMatrix
              /\ \A i, j \in DOMAIN compute_input :
                    Duplicate(i, j) => \E group \in abort_message : {i - 1, j - 1} \subseteq group
              /\ \A group \in abort_message :
                    /\ Cardinality(group) >= 2
                    /\ \A i, j \in group : compute_input[i + 1] = compute_input[j + 1]
        /\ compute_outcome = "aborted" =>
              \E i, j \in DOMAIN compute_input : Duplicate(i, j)
        /\ (/\ Len(compute_input) = 4
             /\ compute_input[1] = compute_input[2]
             /\ compute_input[3] = compute_input[4]
             /\ compute_input[1] # compute_input[3]) =>
              abort_message = { {0, 1}, {2, 3} }

\* Compute has been called with a list x, x, y, y of the tests.
C17_Witness ==
    /\ cov_problem = FixtureProblem
    /\ compute_outcome = "aborted"
    /\ abort_message = { {0, 1}, {2, 3} }
    /\ compute_input[1] = compute_input[2]
    /\ compute_input[3] = compute_input[4]
    /\ covariance_matrix = NoMatrix

\* expected_rows and expected_cols of the sparsity tests.
ExpectedRows == << 0, 5, 10, 15, 18, 21, 24, 28, 32, 36, 40 >>

ExpectedCols ==
    << 0, 6, 7, 8, 9,
       1, 2, 3, 4, 5,
       1, 2, 3, 4, 5,
       3, 4, 5,
       3, 4, 5,
       3, 4, 5,
       6, 7, 8, 9,
       6, 7, 8, 9,
       6, 7, 8, 9,
       6, 7, 8, 9 >>

ExpectedRowsWithoutBlock3 == << 0, 5, 7, 9, 13, 17, 21, 25 >>

ExpectedColsWithoutBlock3 ==
    << 0, 3, 4, 5, 6,
       1, 2,
       1, 2,
       3, 4, 5, 6,
       3, 4, 5, 6,
       3, 4, 5, 6,
       3, 4, 5, 6 >>

RECURSIVE NumNonzeros(_, _)
NumNonzeros(problem, pairs) ==
    IF pairs = << >> THEN 0
    ELSE LET pair == Head(pairs)
         IN  (IF problem[pair[1]].kind \in {"constant", "unused"}
                    \/ problem[pair[2]].kind \in {"constant", "unused"}
              THEN 0 ELSE problem[pair[1]].size * problem[pair[2]].size)
             + NumNonzeros(problem, Tail(pairs))

C19_ZeroTangentBlock ==
    (last_get.method # "none"
        /\ "zero_tangent" \in { cov_problem[last_get.block1].kind,
                                cov_problem[last_get.block2].kind }) =>
        /\ compute_outcome = "true"
        /\ Len(buffer) = cov_problem[last_get.block1].size * cov_problem[last_get.block2].size
        /\ last_get.method = "GetCovarianceBlockInTangentSpace" =>
              \A k \in DOMAIN buffer : buffer[k] = -1
        /\ last_get.method = "GetCovarianceBlock" =>
              \A k \in DOMAIN buffer : buffer[k] = 0

\* The test: the covariance of x and y in tangent space, y having a tangent
\* space of size zero.
C19_Witness ==
    /\ cov_problem = ZeroSizedManifoldProblem
    /\ covariance_blocks = ZeroSizedManifoldBlocks
    /\ last_get = [ method |-> "GetCovarianceBlockInTangentSpace", block1 |-> 1, block2 |-> 2 ]
    /\ buffer = << -1 >>

(***************************************************************************)
(* Properties of the preconditioners (PreconditionerSpec).                 *)
(***************************************************************************)
\* C24: the preconditioner chosen for a problem without e-blocks is JACOBI
\* when SCHUR_JACOBI, CLUSTER_JACOBI or CLUSTER_TRIDIAGONAL was given, and the
\* type that was given when that is IDENTITY, JACOBI, SUBSET or
\* SCHUR_POWER_SERIES_EXPANSION.
C24_ZeroEBlocksMapping ==
    preconditioner_type_used # "NONE" =>
        /\ preconditioner_type_given \in {"SCHUR_JACOBI", "CLUSTER_JACOBI", "CLUSTER_TRIDIAGONAL"}
              => preconditioner_type_used = "JACOBI"
        /\ preconditioner_type_given
                 \in {"IDENTITY", "JACOBI", "SUBSET", "SCHUR_POWER_SERIES_EXPANSION"}
              => preconditioner_type_used = preconditioner_type_given

\* CLUSTER_TRIDIAGONAL was given and JACOBI is used.
C24_Witness ==
    /\ preconditioner_type_given = "CLUSTER_TRIDIAGONAL"
    /\ preconditioner_type_used = "JACOBI"

\* The operator a preconditioner applies: what it makes of x = 1 and y = 0.
Operator(p) == Applied(p, 1, 0)

\* C25 as stated: a successful Update with another A than the one of the
\* successful Update before it changes the operator that is applied.
C25_UpdateWithOtherJacobianChangesOperator ==
    [][ (/\ preconditioner.update_result = "true"
         /\ preconditioner'.update_result = "true"
         /\ preconditioner'.A # preconditioner.A)
            => Operator(preconditioner') # Operator(preconditioner) ]_vars

\* C25 as amended: Update returns success or failure; the wrapper's Update
\* always succeeds and what the wrapper applies is the matrix of its
\* construction, whatever A and D were passed; the identity always succeeds and
\* adds x; the Jacobi preconditioner fails exactly for a singular block and
\* after a successful Update applies the inverse of the block of that A and D.
C25_UpdateAndApply ==
    LET p == preconditioner
        updated == p.update_result # "none"
        applied == product # NoProduct
    IN  /\ p.update_result \in {"none", "true", "false"}
        /\ updated <=> p.A \in Entries /\ p.D \in Entries
        /\ p.variant = "WRAPPER" =>
              /\ p.update_result # "false"
              /\ applied => product.num = product.y + p.matrix_ * product.x /\ product.den = 1
        /\ p.variant = "IDENTITY" =>
              /\ p.update_result # "false"
              /\ applied => product.num = product.y + product.x /\ product.den = 1
        /\ p.variant = "JACOBI" =>
              /\ p.update_result = "false" <=> (updated /\ p.A = 0 /\ p.D = 0)
              /\ applied =>
                    /\ p.update_result = "true"
                    /\ product.den = p.A * p.A + p.D * p.D
                    /\ product.num = product.y * product.den + product.x

\* A wrapper around the matrix 1 has been updated with the Jacobian 2 and
\* multiplies by 1.
C25_Witness ==
    /\ preconditioner.variant = "WRAPPER"
    /\ preconditioner.matrix_ = 1
    /\ preconditioner.update_result = "true"
    /\ preconditioner.A = 2
    /\ product = [ x |-> 2, y |-> 1, num |-> 3, den |-> 1 ]

\* C30: the preconditioner chosen for a problem without e-blocks is never one
\* that is defined on the Schur complement.
C30_NeverOnSchurComplement ==
    preconditioner_type_used \notin
        {"SCHUR_JACOBI", "CLUSTER_JACOBI", "CLUSTER_TRIDIAGONAL", "SCHUR_POWER_SERIES_EXPANSION"}

=============================================================================
